---------------------------- MODULE Spec2Model ----------------------------
(***************************************************************************)
(* Model of backend/server.py (Avatar Productivity API): the task          *)
(* completion handler complete_task, the coaching-message helper           *)
(* get_ai_coaching_message and the CRUD handlers that feed them.           *)
(*                                                                         *)
(* The three MongoDB collections are shared state.  complete_task holds no *)
(* lock and issues its store operations one by one (find_one, update_one,  *)
(* find_one, update_one, insert_one), so requests served by different      *)
(* server processes against the same database interleave between any two   *)
(* store operations; inside one event loop the handler additionally        *)
(* suspends at the await of line 88.  Each store operation is one atomic   *)
(* step of the model.                                                      *)
(***************************************************************************)
EXTENDS Integers, Sequences, FiniteSets, TLC

(* ------------------------------ bounds -------------------------------- *)
MaxUsers == 1
MaxTasks == 2
MaxRequests == 2

MaxViews == 1

(* ------------------------- program constants -------------------------- *)
XpPerLevel == 100
DefaultXp == 0
DefaultLevel == 1
DefaultMood == "neutral"

(* inputs a client may send *)
Titles(id) == {"Task " \o ToString(id)}   \* every task gets a title of its own
Names(id) == {"User " \o ToString(id)}

Rewards == {15, 190}
RemoteTexts == {"You did it!"}
Exceptions == {"TimeoutError", "ConnectionError"}
GhostUser == 0      \* a user_id that names no stored user
NoSuchTask == 0     \* a task_id that names no stored task
None == 0           \* Python None for completed_at; the clock starts at 1

VARIABLES users, tasks, avatar_states, reqs, views, now, next_task_id, emergent_key

vars == <<users, tasks, avatar_states, reqs, views, now, next_task_id, emergent_key>>

ReqIds == 1..MaxRequests

ViewIds == 1..MaxViews

Max(a, b) == IF a >= b THEN a ELSE b

(* ------------------------------ messages ------------------------------ *)
(* A message is the sequence of the pieces the f-string concatenates; the  *)
(* last piece of the template stands for "! " and the emoji U+1F389.       *)
NoMessage == <<>>

StaticFallback == <<"Great job completing that task! Keep up the excellent work!">>

Greeting(user_name) ==
    <<"Hey ", user_name, "! I'm ready to celebrate your productivity! (target)">>

TemplateFallback_Static(task_title, user_level) == StaticFallback

TemplateFallback(task_title, user_level) ==
    <<"Amazing work on '", task_title, "'! You're crushing it at level ",
      ToString(user_level), "! (party popper)">>

(* ------------------------------ records ------------------------------- *)
(* created_xp is a history field: the xp the user was created with.        *)
User(xp, level, avatar_mood) ==
    [name |-> "", xp |-> xp, level |-> level, avatar_mood |-> avatar_mood,
     created_xp |-> xp]

NewUser == User(DefaultXp, DefaultLevel, DefaultMood)

(* The body of POST /api/users is the whole User model: a client may leave *)
(* xp and level to their defaults or send them, and nothing checks that    *)
(* the level it sends is the level of the xp it sends.                     *)
UserBodies == {NewUser, User(190, 1, DefaultMood), User(250, 1, DefaultMood)}

NewTask(id, user_id, title, xp_reward) ==
    [id |-> id, user_id |-> user_id, title |-> title, completed |-> FALSE,
     xp_reward |-> xp_reward, completed_at |-> None]

NoTask == [id |-> NoSuchTask, user_id |-> GhostUser, title |-> "", completed |-> FALSE,
           xp_reward |-> 0, completed_at |-> None]

NoUser == [name |-> "", xp |-> 0, level |-> 0, avatar_mood |-> "", created_xp |-> 0]

NoResult == [status |-> 0, detail |-> "", xp_gained |-> 0, new_xp |-> 0, new_level |-> 0,
             level_up |-> FALSE, avatar_mood |-> "", ai_message |-> NoMessage]

HTTPException_Swallowed(status_code, detail) ==
    [NoResult EXCEPT !.status = 200, !.detail = detail]

HTTPException(status_code, detail) ==
    [NoResult EXCEPT !.status = status_code, !.detail = detail]

NoAvatarState == [id |-> 0, user_id |-> GhostUser, mood |-> "", animation |-> "",
                  message |-> NoMessage, timestamp |-> None]

(* the answer of GET /api/avatar-state/{user_id} *)
NoView == [status |-> 0, detail |-> "", mood |-> "", animation |-> "",
           message |-> NoMessage, xp |-> 0, level |-> 0]

ViewNotFound(detail) == [NoView EXCEPT !.status = 404, !.detail = detail]

IdleView == [pc |-> "idle", user_id |-> GhostUser, user |-> NoUser, result |-> NoView]

IdleRequest ==
    [pc |-> "idle", task_id |-> NoSuchTask, task |-> NoTask, user |-> NoUser,
     new_xp |-> 0, new_level |-> 0, new_mood |-> "", ai_message |-> NoMessage,
     calls |-> 0, outcome |-> "", after_success |-> FALSE, alone |-> FALSE,
     xp_before |-> 0, avatar_state |-> NoAvatarState, result |-> NoResult]

(* ------------------------- leveling and mood -------------------------- *)
NewLevel_NoFloor(new_xp) == new_xp \div XpPerLevel

NewLevel(new_xp) == Max(1, new_xp \div XpPerLevel)

NewMood(new_level, user_level) == IF new_level > user_level THEN "excited" ELSE "happy"

Animation_Idle(new_level, user_level) ==
    IF new_level > user_level THEN "celebrate" ELSE "idle"

Animation(new_level, user_level) ==
    IF new_level > user_level THEN "celebrate" ELSE "happy_bounce"

AlreadyCompleted_Never(task) == FALSE

AlreadyCompleted(task) == task.completed

KeyMissing_Never(key) == FALSE

KeyMissing(key) == ~key

(* -------------------------------- Init -------------------------------- *)
Init ==
    /\ users = <<>>
    /\ tasks = <<>>
    /\ avatar_states = <<>>
    /\ reqs = [r \in ReqIds |-> IdleRequest]
    /\ views = [v \in ViewIds |-> IdleView]
    /\ now = 1
    /\ next_task_id = 1
    /\ emergent_key \in BOOLEAN

(* --------------------------- CRUD handlers ---------------------------- *)
create_user ==
    /\ Len(users) < MaxUsers
    /\ \E user \in UserBodies, name \in Names(Len(users) + 1) :
         users' = Append(users, [user EXCEPT !.name = name])
    /\ UNCHANGED <<tasks, avatar_states, reqs, now, next_task_id, views, emergent_key>>

create_task ==
    /\ next_task_id <= MaxTasks
    /\ \E user_id \in DOMAIN users \cup {GhostUser}, title \in Titles(next_task_id), xp_reward \in Rewards :
         tasks' = [t \in DOMAIN tasks \cup {next_task_id} |->
                     IF t = next_task_id
                     THEN NewTask(next_task_id, user_id, title, xp_reward)
                     ELSE tasks[t]]
    /\ next_task_id' = next_task_id + 1
    /\ UNCHANGED <<users, avatar_states, reqs, now, views, emergent_key>>

delete_task ==
    /\ \E task_id \in DOMAIN tasks :
         tasks' = [t \in DOMAIN tasks \ {task_id} |-> tasks[t]]
    /\ UNCHANGED <<users, avatar_states, reqs, now, next_task_id, views, emergent_key>>

(* --------------------------- complete_task ---------------------------- *)
(* One action per store operation of the handler; reqs[r].pc is the line   *)
(* of server.py the request will execute next.  Requests are numbered in   *)
(* their order of arrival.                                                 *)
Arrived(r) == reqs[r].pc # "idle"

Done(r) == reqs[r].pc = "done"

Return(r, result) ==
    reqs' = [reqs EXCEPT ![r].pc = "done", ![r].result = result]

(* lines 132-137: find the task, 404 if absent, 400 if already completed.  *)
(* Three history fields record how the call arrived: after_success, an     *)
(* earlier call on the same task had already returned success; alone, no   *)
(* other call for a task of the same user has been in flight since this    *)
(* one arrived; xp_before, the owner's stored xp at arrival.               *)
Succeeded(r) == Done(r) /\ reqs[r].result.status = 200

InFlightFor(q, user_id) ==
    Arrived(q) /\ ~Done(q) /\ reqs[q].task.user_id = user_id

FindTask(r) ==
    /\ reqs[r].pc = "idle"
    /\ \A q \in ReqIds : q < r => Arrived(q)
    /\ \E task_id \in DOMAIN tasks \cup {NoSuchTask} :
         LET seen == \E q \in ReqIds : Succeeded(q) /\ reqs[q].task_id = task_id IN
         IF task_id \notin DOMAIN tasks
         THEN reqs' = [reqs EXCEPT ![r].pc = "done", ![r].task_id = task_id,
                                   ![r].result = HTTPException(404, "Task not found")]
         ELSE IF AlreadyCompleted(tasks[task_id])
         THEN reqs' = [reqs EXCEPT ![r].pc = "done", ![r].task_id = task_id,
                                   ![r].task = tasks[task_id], ![r].after_success = seen,
                                   ![r].result = HTTPException(400, "Task already completed")]
         ELSE LET owner == tasks[task_id].user_id IN
              reqs' = [q \in ReqIds |->
                         IF q = r
                         THEN [reqs[r] EXCEPT
                                 !.pc = "L140", !.task_id = task_id,
                                 !.task = tasks[task_id], !.after_success = seen,
                                 !.alone = ~\E o \in ReqIds : InFlightFor(o, owner),
                                 !.xp_before = IF owner \in DOMAIN users
                                               THEN users[owner].xp ELSE 0]
                         ELSE IF InFlightFor(q, owner)
                              THEN [reqs[q] EXCEPT !.alone = FALSE]
                              ELSE reqs[q]]
    /\ UNCHANGED <<users, tasks, avatar_states, now, next_task_id, views, emergent_key>>

(* lines 140-148: update_one({"id": task_id}, $set completed, completed_at) *)
MarkCompleted(store, task_id, at) ==
    [t \in DOMAIN store |->
       IF t = task_id
       THEN [store[t] EXCEPT !.completed = TRUE, !.completed_at = at]
       ELSE store[t]]

UpdateTask(r) ==
    /\ reqs[r].pc = "L140"
    /\ tasks' = MarkCompleted(tasks, reqs[r].task_id, now)
    /\ now' = now + 1
    /\ reqs' = [reqs EXCEPT ![r].pc = "L151"]
    /\ UNCHANGED <<users, avatar_states, next_task_id, views, emergent_key>>

(* lines 151-157: find the owner, 404 if absent, compute xp, level, mood *)
FindUser(r) ==
    /\ reqs[r].pc = "L151"
    /\ LET user_id == reqs[r].task.user_id IN
       IF user_id \notin DOMAIN users
       THEN Return(r, HTTPException(404, "User not found"))
       ELSE LET user == users[user_id]
                new_xp == user.xp + reqs[r].task.xp_reward
                new_level == NewLevel(new_xp)
            IN reqs' = [reqs EXCEPT ![r].pc = "L159", ![r].user = user,
                                    ![r].new_xp = new_xp, ![r].new_level = new_level,
                                    ![r].new_mood = NewMood(new_level, user.level)]
    /\ UNCHANGED <<users, tasks, avatar_states, now, next_task_id, views, emergent_key>>

(* lines 159-168: update_one({"id": user_id}, $set xp, level, avatar_mood) *)
SetUser_KeepLevel(store, user_id, new_xp, new_level, new_mood) ==
    [u \in DOMAIN store |->
       IF u = user_id
       THEN [store[u] EXCEPT !.xp = new_xp, !.avatar_mood = new_mood]
       ELSE store[u]]

SetUser(store, user_id, new_xp, new_level, new_mood) ==
    [u \in DOMAIN store |->
       IF u = user_id
       THEN [store[u] EXCEPT !.xp = new_xp, !.level = new_level, !.avatar_mood = new_mood]
       ELSE store[u]]

(* lines 72-76: without a key the helper returns the static text at once   *)
(* and sends nothing; lines 78-88: with a key it sends the one request and *)
(* suspends at the await.                                                  *)
EnterCoach_Retry(req, key) ==
    IF KeyMissing(key)
    THEN [req EXCEPT !.pc = "L179", !.ai_message = StaticFallback, !.outcome = "no_key"]
    ELSE [req EXCEPT !.pc = "L88", !.calls = @ + 2]

EnterCoach(req, key) ==
    IF KeyMissing(key)
    THEN [req EXCEPT !.pc = "L179", !.ai_message = StaticFallback, !.outcome = "no_key"]
    ELSE [req EXCEPT !.pc = "L88", !.calls = @ + 1]

(* lines 159-171: the update of the user, then the handler runs on into    *)
(* get_ai_coaching_message without touching the store.                     *)
UpdateUser(r) ==
    /\ reqs[r].pc = "L159"
    /\ users' = SetUser(users, reqs[r].task.user_id, reqs[r].new_xp,
                        reqs[r].new_level, reqs[r].new_mood)
    /\ reqs' = [reqs EXCEPT ![r] = EnterCoach(reqs[r], emergent_key)]
    /\ UNCHANGED <<tasks, avatar_states, now, next_task_id, views, emergent_key>>

(* line 89: the service answers, its text is returned as it is *)
CoachResponds(r) ==
    /\ reqs[r].pc = "L88"
    /\ \E text \in RemoteTexts :
         reqs' = [reqs EXCEPT ![r].pc = "L179", ![r].ai_message = <<text>>,
                              ![r].outcome = "response"]
    /\ UNCHANGED <<users, tasks, avatar_states, now, next_task_id, views, emergent_key>>

(* lines 90-92: the call raises, the templated fallback is returned *)
CoachRaises(r) ==
    /\ reqs[r].pc = "L88"
    /\ \E e \in Exceptions :
         reqs' = [reqs EXCEPT ![r].pc = "L179", ![r].outcome = "raised",
                    ![r].ai_message = TemplateFallback(reqs[r].task.title, reqs[r].new_level)]
    /\ UNCHANGED <<users, tasks, avatar_states, now, next_task_id, views, emergent_key>>

(* lines 179-184: build the AvatarState; its timestamp is read from the    *)
(* clock here (default_factory), before the insert of line 186, so that    *)
(* another request can build and insert its record in between.  The        *)
(* record's uuid is modelled by the number of the request.                 *)
NewAvatarState_TaskId(r, at) ==
    [id |-> r, user_id |-> reqs[r].task_id, mood |-> reqs[r].new_mood,
     animation |-> Animation(reqs[r].new_level, reqs[r].user.level),
     message |-> reqs[r].ai_message, timestamp |-> at]

NewAvatarState(r, at) ==
    [id |-> r, user_id |-> reqs[r].task.user_id, mood |-> reqs[r].new_mood,
     animation |-> Animation(reqs[r].new_level, reqs[r].user.level),
     message |-> reqs[r].ai_message, timestamp |-> at]

BuildAvatarState(r) ==
    /\ reqs[r].pc = "L179"
    /\ reqs' = [reqs EXCEPT ![r].pc = "L186", ![r].avatar_state = NewAvatarState(r, now)]
    /\ now' = now + 1
    /\ UNCHANGED <<users, tasks, avatar_states, next_task_id, views, emergent_key>>

(* lines 186-196: insert the record, return the result *)
Success(r) ==
    [status |-> 200, detail |-> "Task completed successfully!",
     xp_gained |-> reqs[r].task.xp_reward, new_xp |-> reqs[r].new_xp,
     new_level |-> reqs[r].new_level,
     level_up |-> reqs[r].new_level > reqs[r].user.level,
     avatar_mood |-> reqs[r].new_mood, ai_message |-> reqs[r].ai_message]

InsertAvatarState(r) ==
    /\ reqs[r].pc = "L186"
    /\ avatar_states' = Append(avatar_states, reqs[r].avatar_state)
    /\ Return(r, Success(r))
    /\ UNCHANGED <<users, tasks, now, next_task_id, views, emergent_key>>

(* ------------------ GET /api/avatar-state/{user_id} ------------------- *)
(* The handler reads the store twice and writes nothing: the user at line  *)
(* 200, the latest record of the user at lines 205-208. Other requests may *)
(* write between the two reads.                                            *)
ViewUser(v) ==
    /\ views[v].pc = "idle"
    /\ \E user_id \in (1..MaxUsers) \cup {GhostUser} :
         IF user_id \notin DOMAIN users
         THEN views' = [views EXCEPT ![v].pc = "done", ![v].user_id = user_id,
                                     ![v].result = ViewNotFound("User not found")]
         ELSE views' = [views EXCEPT ![v].pc = "L205", ![v].user_id = user_id,
                                     ![v].user = users[user_id]]
    /\ UNCHANGED <<users, tasks, avatar_states, reqs, now, next_task_id, emergent_key>>

(* find_one({"user_id": user_id}, sort=[("timestamp", -1)]): the position  *)
(* in the log of the user's record with the greatest timestamp, None when  *)
(* the user has no record.                                                 *)
Latest_Written(store, user_id) ==
    LET mine == {i \in DOMAIN store : store[i].user_id = user_id} IN
    IF mine = {} THEN None
    ELSE CHOOSE i \in mine : \A j \in mine : j <= i

Latest(store, user_id) ==
    LET mine == {i \in DOMAIN store : store[i].user_id = user_id} IN
    IF mine = {} THEN None
    ELSE CHOOSE i \in mine : \A j \in mine : store[j].timestamp <= store[i].timestamp

(* lines 210-217 *)
DefaultView_Neutral(user) ==
    [status |-> 200, detail |-> "", mood |-> DefaultMood, animation |-> "idle",
     message |-> Greeting(user.name), xp |-> user.xp, level |-> user.level]

DefaultView(user) ==
    [status |-> 200, detail |-> "", mood |-> user.avatar_mood, animation |-> "idle",
     message |-> Greeting(user.name), xp |-> user.xp, level |-> user.level]

(* lines 219-225 *)
LatestView(latest_state, user) ==
    [status |-> 200, detail |-> "", mood |-> latest_state.mood,
     animation |-> latest_state.animation, message |-> latest_state.message,
     xp |-> user.xp, level |-> user.level]

ViewLatest(v) ==
    /\ views[v].pc = "L205"
    /\ LET latest_state == Latest(avatar_states, views[v].user_id) IN
       views' = [views EXCEPT
                   ![v].pc = "done",
                   ![v].result = IF latest_state = None
                                 THEN DefaultView(views[v].user)
                                 ELSE LatestView(avatar_states[latest_state], views[v].user)]
    /\ UNCHANGED <<users, tasks, avatar_states, reqs, now, next_task_id, emergent_key>>

get_avatar_state(v) ==
    \/ ViewUser(v)
    \/ ViewLatest(v)

(* the steps the server itself takes once a request has arrived *)
ServerStep(r) ==
    \/ UpdateTask(r)
    \/ FindUser(r)
    \/ UpdateUser(r)
    \/ BuildAvatarState(r)
    \/ InsertAvatarState(r)

complete_task(r) ==
    \/ FindTask(r)
    \/ ServerStep(r)

(* ------------------------- the specifications ------------------------- *)
Next ==
    \/ create_user
    \/ create_task
    \/ delete_task
    \/ \E r \in ReqIds : complete_task(r)
    \/ \E v \in ViewIds : get_avatar_state(v)
    \/ \E r \in ReqIds : CoachResponds(r)
    \/ \E r \in ReqIds : CoachRaises(r)

Spec == Init /\ [][Next]_vars

(* The server runs every step of a handler it has started.  The await of   *)
(* line 88 is not wrapped in a timeout, so nothing in the handler makes    *)
(* the external call end: its two outcomes carry no fairness.              *)
LiveSpec == Spec /\ \A r \in ReqIds : WF_vars(ServerStep(r))

(* =============================== claims =============================== *)
Owner(r) == reqs[r].task.user_id

Rejected(r) == Done(r) /\ reqs[r].result = HTTPException(400, "Task already completed")

RequestsOn(task_id) == {r \in ReqIds : Arrived(r) /\ reqs[r].task_id = task_id}

RequestsFor(user_id) == {r \in ReqIds : Arrived(r) /\ Owner(r) = user_id}

RecordsOf(R) == {i \in DOMAIN avatar_states : avatar_states[i].id \in R}

RECURSIVE SumXpGained(_)
SumXpGained(R) ==
    IF R = {} THEN 0
    ELSE LET r == CHOOSE x \in R : TRUE
         IN reqs[r].result.xp_gained + SumXpGained(R \ {r})

Contains(message, piece) == \E i \in 1..Len(message) : message[i] = piece

LevelOf(xp) == IF xp \div 100 >= 1 THEN xp \div 100 ELSE 1

(* C1: once all the completeTask requests on one stored task with an       *)
(* existing owner have returned, exactly one of them has succeeded, every  *)
(* other one has failed with AlreadyCompleted, exactly one AvatarState     *)
(* record was appended for them, and, when the owner has no other request, *)
(* the owner's xp is the initial xp plus one xpReward.                     *)
C1_ExactlyOneCompletion ==
    \A t \in DOMAIN tasks :
      LET R == RequestsOn(t)
          u == tasks[t].user_id
      IN (u \in DOMAIN users /\ R # {} /\ \A r \in R : Done(r)) =>
           /\ Cardinality({r \in R : Succeeded(r)}) = 1
           /\ \A r \in R : Succeeded(r) \/ Rejected(r)
           /\ Cardinality(RecordsOf(R)) = 1
           /\ (RequestsFor(u) = R => users[u].xp = users[u].created_xp + tasks[t].xp_reward)

(* C2: once all requests for a user's tasks have returned, no two of them  *)
(* on the same task, the user's xp is the initial xp plus the sum of the   *)
(* xpReward of every completed task: no increment is lost.                 *)
C2_NoLostUpdate ==
    \A u \in DOMAIN users :
      LET R == RequestsFor(u)
      IN (/\ \A r \in R : Done(r)
          /\ \A r, q \in R : r # q => reqs[r].task_id # reqs[q].task_id) =>
           /\ \A r \in R : Succeeded(r)
           /\ users[u].xp = users[u].created_xp + SumXpGained(R)

(* C3: a completeTask call that arrives for a stored task after an earlier *)
(* call on that task has returned success fails with 400 AlreadyCompleted  *)
(* in its first step and changes no user, no task and no AvatarState.      *)
C3_SecondCompletionRejected ==
    [][\A r \in ReqIds :
         (/\ reqs[r].pc = "idle"
          /\ reqs'[r].pc # "idle"
          /\ reqs'[r].task_id \in DOMAIN tasks
          /\ \E q \in ReqIds : Succeeded(q) /\ reqs[q].task_id = reqs'[r].task_id)
         => /\ reqs'[r].pc = "done"
            /\ reqs'[r].result = HTTPException(400, "Task already completed")
            /\ UNCHANGED <<users, tasks, avatar_states>>]_vars

C3_Witness ==
    \E r \in ReqIds : Rejected(r) /\ reqs[r].after_success /\ reqs[r].task_id \in DOMAIN tasks

(* C4: a completeTask call that fails with NotFound(user) leaves its task  *)
(* not completed (completed false, completedAt null) and writes no         *)
(* AvatarState record.                                                     *)
UserNotFound(r) == Done(r) /\ reqs[r].result = HTTPException(404, "User not found")

C4_UserNotFoundIsAtomic ==
    \A r \in ReqIds :
      UserNotFound(r) =>
        /\ reqs[r].task_id \in DOMAIN tasks =>
             /\ ~tasks[reqs[r].task_id].completed
             /\ tasks[reqs[r].task_id].completed_at = None
        /\ RecordsOf({r}) = {}

(* C5: no step lowers the stored xp of a user.                             *)
C5_XpNeverDecreases ==
    [][\A u \in DOMAIN users : users'[u].xp >= users[u].xp]_vars

(* C6: after every update of a user by completeTask the stored user has    *)
(* level = max(1, floor(xp / 100)).                                        *)
C6_LevelFollowsXp ==
    [][\A r \in ReqIds :
         (reqs[r].pc = "L159" /\ reqs'[r].pc # "L159")
         => users'[Owner(r)].level = LevelOf(users'[Owner(r)].xp)]_vars

C6_Witness ==
    \E u \in DOMAIN users : users[u].xp >= 2 * XpPerLevel /\ users[u].level = 2

(* C7: for every task completedAt is set iff completed is true, completed  *)
(* never returns to false, and completedAt, once set, is never written     *)
(* again.                                                                  *)
C7_CompletedAtWrittenOnce ==
    /\ [](\A t \in DOMAIN tasks : (tasks[t].completed_at # None) <=> tasks[t].completed)
    /\ [][\A t \in DOMAIN tasks \cap DOMAIN tasks' :
            /\ tasks[t].completed => tasks'[t].completed
            /\ tasks[t].completed_at # None =>
                 tasks'[t].completed_at = tasks[t].completed_at]_vars

(* C8 as stated: without a credential a successful completeTask makes no   *)
(* outbound call and its aiMessage is non-empty and contains the task's    *)
(* title.                                                                  *)
C8_NoKeyMessageHasTitle ==
    \A r \in ReqIds :
      (~emergent_key /\ Succeeded(r)) =>
        /\ reqs[r].calls = 0
        /\ reqs[r].result.ai_message # NoMessage
        /\ Contains(reqs[r].result.ai_message, reqs[r].task.title)

(* C8 as amended: without a credential no request ever makes an outbound   *)
(* call, and a completeTask that found its task uncompleted and its owner  *)
(* stored returns success with the non-empty static fallback text, which   *)
(* does not contain the task's title.                                      *)
C8_NoKeyStaticFallback ==
    ~emergent_key =>
      \A r \in ReqIds :
        /\ reqs[r].calls = 0
        /\ reqs[r].pc # "L88"
        /\ (Done(r) /\ reqs[r].user # NoUser) =>
             /\ reqs[r].result.status = 200
             /\ reqs[r].result.ai_message =
                  <<"Great job completing that task! Keep up the excellent work!">>
             /\ Len(reqs[r].result.ai_message[1]) > 0
             /\ ~Contains(reqs[r].result.ai_message, reqs[r].task.title)

C8_Witness ==
    ~emergent_key /\ \E r \in ReqIds : Succeeded(r) /\ reqs[r].user # NoUser

(* C9: every request that has claimed its task (executed the update of     *)
(* lines 140-148) eventually returns and has appended its AvatarState.     *)
Claimed(r) == reqs[r].pc \in {"L151", "L159", "L88", "L179", "L186"}

C9_ClaimedEventuallyRecorded ==
    \A r \in ReqIds : Claimed(r) ~> (Done(r) /\ RecordsOf({r}) # {})

(* C10: when the external call raises, the request holds the templated     *)
(* fallback with the task's title and the new level; once it has returned  *)
(* it has returned success with that text, its one AvatarState record      *)
(* carries the same text and its task, if still stored, is completed; and  *)
(* no step of the request from the await on changes a user or a task.      *)
C10_FailureAbsorbed ==
    /\ [](\A r \in ReqIds :
            reqs[r].outcome = "raised" =>
              /\ reqs[r].ai_message[1] = "Amazing work on '"
              /\ Contains(reqs[r].ai_message, reqs[r].task.title)
              /\ Contains(reqs[r].ai_message, ToString(reqs[r].new_level))
              /\ Done(r) =>
                   /\ reqs[r].result.status = 200
                   /\ reqs[r].result.ai_message = reqs[r].ai_message
                   /\ Cardinality(RecordsOf({r})) = 1
                   /\ \A i \in RecordsOf({r}) :
                        avatar_states[i].message = reqs[r].result.ai_message
                   /\ reqs[r].task_id \in DOMAIN tasks =>
                        tasks[reqs[r].task_id].completed)
    /\ [][\A r \in ReqIds :
            (reqs[r].pc \in {"L88", "L179", "L186"} /\ reqs'[r] # reqs[r])
            => UNCHANGED <<users, tasks>>]_vars

C10_Witness ==
    \E r \in ReqIds : Succeeded(r) /\ reqs[r].outcome = "raised"

(* C11: a request sends its coaching call only in the step that commits    *)
(* its update of the user, after its update of the task (the task, if      *)
(* still stored, is completed); it sends at most one call; and a request   *)
(* that returned NotFound or AlreadyCompleted has sent none.               *)
Failed(r) == Done(r) /\ reqs[r].result.status \in {400, 404}

C11_CoachAfterCommit ==
    /\ [](\A r \in ReqIds :
            /\ reqs[r].calls <= 1
            /\ Failed(r) => reqs[r].calls = 0)
    /\ [][\A r \in ReqIds :
            reqs'[r].calls # reqs[r].calls =>
              /\ reqs[r].pc = "L159"
              /\ reqs[r].calls = 0
              /\ reqs'[r].calls = 1
              /\ reqs[r].task_id \in DOMAIN tasks => tasks[reqs[r].task_id].completed
              /\ users'[Owner(r)].xp = reqs[r].new_xp
              /\ users'[Owner(r)].level = reqs[r].new_level
              /\ users'[Owner(r)].avatar_mood = reqs[r].new_mood]_vars

C11_Witness ==
    /\ \E r \in ReqIds : Succeeded(r) /\ reqs[r].calls = 1
    /\ \E q \in ReqIds : Failed(q)

(* C12: a successful completeTask during which no other request for the   *)
(* same user was in flight returns xpGained = the task's xpReward, newXp = *)
(* the user's xp at arrival + xpReward and newLevel = max(1, newXp div     *)
(* 100) (xp 190 and reward 15 give 205 and level 2), and when it returns   *)
(* the stored xp and level are the returned newXp and newLevel.            *)
C12_SequentialResult ==
    /\ [](\A r \in ReqIds :
            (Succeeded(r) /\ reqs[r].alone) =>
              LET res == reqs[r].result IN
              /\ reqs[r].task_id \in DOMAIN tasks =>
                   res.xp_gained = tasks[reqs[r].task_id].xp_reward
              /\ res.new_xp = reqs[r].xp_before + res.xp_gained
              /\ res.new_level = LevelOf(res.new_xp)
              /\ (reqs[r].xp_before = 190 /\ res.xp_gained = 15) =>
                   (res.new_xp = 205 /\ res.new_level = 2))
    /\ [][\A r \in ReqIds :
            (reqs[r].pc # "done" /\ reqs'[r].pc = "done"
               /\ reqs'[r].result.status = 200 /\ reqs'[r].alone) =>
              /\ users'[Owner(r)].xp = reqs'[r].result.new_xp
              /\ users'[Owner(r)].level = reqs'[r].result.new_level]_vars

C12_Witness ==
    \E r \in ReqIds :
       /\ Succeeded(r) /\ reqs[r].alone /\ reqs[r].xp_before = 190
       /\ reqs[r].result.new_xp = 205 /\ reqs[r].result.new_level = 2
       /\ users[Owner(r)].xp = 205 /\ users[Owner(r)].level = 2

(* C13: for every successful completeTask the returned leveledUp equals    *)
(* level(newXp) > level(oldXp), oldXp being newXp - xpGained; the returned *)
(* mood is "excited" and the appended animation "celebrate" exactly when   *)
(* that holds, "happy" and "happy_bounce" otherwise.                       *)
C13_LevelUpFollowsXp ==
    \A r \in ReqIds :
      Succeeded(r) =>
        LET res == reqs[r].result
            up == LevelOf(res.new_xp) > LevelOf(res.new_xp - res.xp_gained)
        IN /\ res.level_up = up
           /\ res.avatar_mood = IF up THEN "excited" ELSE "happy"
           /\ \A i \in RecordsOf({r}) :
                avatar_states[i].animation = IF up THEN "celebrate" ELSE "happy_bounce"

(* C14: a completeTask call whose taskId matches no stored task returns    *)
(* 404 NotFound in its first step and changes no task, no user and no      *)
(* AvatarState record.                                                     *)
C14_UnknownTaskNotFound ==
    [][\A r \in ReqIds :
         (/\ reqs[r].pc = "idle"
          /\ reqs'[r].pc # "idle"
          /\ reqs'[r].task_id \notin DOMAIN tasks)
         => /\ reqs'[r].pc = "done"
            /\ reqs'[r].result.status = 404
            /\ reqs'[r].result.detail = "Task not found"
            /\ UNCHANGED <<users, tasks, avatar_states>>]_vars

C14_Witness ==
    /\ \E r \in ReqIds : Done(r) /\ reqs[r].result.status = 404
                         /\ reqs[r].result.detail = "Task not found"
    /\ DOMAIN tasks # {}
    /\ avatar_states # <<>>

(* C15: the AvatarState log only grows and its records never change; a    *)
(* step changes the log only when a completeTask returns success, and then *)
(* it appends exactly one record, for the owner of the task; a step in     *)
(* which a completeTask returns success always appends; so whenever no     *)
(* request is in flight every user has as many records as successful       *)
(* completions of its tasks.                                               *)
Quiescent == \A r \in ReqIds : reqs[r].pc \in {"idle", "done"}

RecordsFor(user_id) == {i \in DOMAIN avatar_states : avatar_states[i].user_id = user_id}

Returns(r, status) ==
    reqs[r].pc # "done" /\ reqs'[r].pc = "done" /\ reqs'[r].result.status = status

C15_AppendOnlyLog ==
    /\ [](Quiescent =>
            \A u \in DOMAIN users \cup {GhostUser} :
               Cardinality(RecordsFor(u)) =
                 Cardinality({r \in ReqIds : Succeeded(r) /\ Owner(r) = u}))
    /\ [][/\ Len(avatar_states') >= Len(avatar_states)
          /\ \A i \in DOMAIN avatar_states : avatar_states'[i] = avatar_states[i]
          /\ avatar_states' # avatar_states =>
               \E r \in ReqIds :
                  /\ Returns(r, 200)
                  /\ Len(avatar_states') = Len(avatar_states) + 1
                  /\ avatar_states'[Len(avatar_states')].user_id = Owner(r)
                  /\ avatar_states'[Len(avatar_states')].id = r
          /\ \A r \in ReqIds :
               /\ Returns(r, 200) => avatar_states' # avatar_states
               /\ (Returns(r, 400) \/ Returns(r, 404)) =>
                    (avatar_states' = avatar_states /\ RecordsOf({r}) = {})]_vars

C15_Witness ==
    /\ Quiescent
    /\ \E u \in DOMAIN users : Cardinality(RecordsFor(u)) = 1
    /\ \E r, q \in ReqIds : Succeeded(r) /\ Failed(q)

(* C16: getAvatarState writes nothing: a step that moves a call leaves     *)
(* users, tasks and the AvatarState log as they are; a call for an         *)
(* existing user that finds no record of the user answers 200 with         *)
(* animation "idle" and the mood, xp and level of the user it read; a call *)
(* answers 404 exactly when no user has the id.                            *)
ViewReturns(v) == views[v].pc # "done" /\ views'[v].pc = "done"

C16_DefaultViewPureRead ==
    [][\A v \in ViewIds :
         /\ views'[v] # views[v] => UNCHANGED <<users, tasks, avatar_states, reqs>>
         /\ (ViewReturns(v) /\ views'[v].user_id \in DOMAIN users
               /\ RecordsFor(views'[v].user_id) = {}) =>
              /\ views'[v].result.status = 200
              /\ views'[v].result.animation = "idle"
              /\ views'[v].result.mood = views[v].user.avatar_mood
              /\ views'[v].result.xp = views[v].user.xp
              /\ views'[v].result.level = views[v].user.level
              /\ Contains(views'[v].result.message, users[views'[v].user_id].name)
         /\ ViewReturns(v) =>
              (views'[v].result.status = 404 <=> views'[v].user_id \notin DOMAIN users)]_vars

C16_Witness ==
    \E v \in ViewIds :
       /\ views[v].pc = "done"
       /\ views[v].result.animation = "idle"
       /\ views[v].result.mood \in {"happy", "excited"}

(* C17: a call for a user with at least one record answers with the mood,  *)
(* animation and message of the user's record with the greatest timestamp, *)
(* wherever that record stands in the log, and with the xp and level of    *)
(* the user it read.                                                       *)
C17_LatestByTimestamp ==
    [][\A v \in ViewIds :
         (ViewReturns(v) /\ RecordsFor(views'[v].user_id) # {}) =>
            \E i \in RecordsFor(views'[v].user_id) :
               /\ \A j \in RecordsFor(views'[v].user_id) :
                     avatar_states[j].timestamp <= avatar_states[i].timestamp
               /\ views'[v].result.status = 200
               /\ views'[v].result.mood = avatar_states[i].mood
               /\ views'[v].result.animation = avatar_states[i].animation
               /\ views'[v].result.message = avatar_states[i].message
               /\ views'[v].result.xp = views[v].user.xp
               /\ views'[v].result.level = views[v].user.level]_vars

C17_Witness ==
    \E v \in ViewIds :
       /\ views[v].pc = "done"
       /\ \E i, j \in RecordsFor(views[v].user_id) :
             /\ i < j
             /\ avatar_states[i].timestamp > avatar_states[j].timestamp
             /\ avatar_states[i].mood # avatar_states[j].mood
             /\ views[v].result.mood = avatar_states[i].mood
             /\ views[v].result.message = avatar_states[i].message

(* C18: whenever no completeTask request is in flight, the mood of the     *)
(* most recent record (greatest timestamp) of every user that has a record *)
(* is the avatar_mood stored in the user.                                  *)
C18_LatestMoodIsStoredMood ==
    Quiescent =>
       \A u \in DOMAIN users :
          \A i \in RecordsFor(u) :
             (\A j \in RecordsFor(u) : avatar_states[j].timestamp <= avatar_states[i].timestamp)
                => avatar_states[i].mood = users[u].avatar_mood

(* C19: every record of the AvatarState log has mood "excited" with        *)
(* animation "celebrate" or mood "happy" with animation "happy_bounce";    *)
(* "idle" is an animation of answers of getAvatarState only, and only of   *)
(* the default view built for a user without records.                      *)
C19_RecordKinds ==
    /\ \A i \in DOMAIN avatar_states :
          \/ avatar_states[i].mood = "excited" /\ avatar_states[i].animation = "celebrate"
          \/ avatar_states[i].mood = "happy" /\ avatar_states[i].animation = "happy_bounce"
    /\ \A r \in ReqIds :
          reqs[r].pc = "L186" =>
             <<reqs[r].avatar_state.mood, reqs[r].avatar_state.animation>>
                \in {<<"excited", "celebrate">>, <<"happy", "happy_bounce">>}
    /\ \A v \in ViewIds :
          views[v].result.animation = "idle" =>
             views[v].result.message = Greeting(views[v].user.name)

C19_Witness ==
    \E i, j \in DOMAIN avatar_states :
       /\ avatar_states[i].animation = "celebrate"
       /\ avatar_states[j].animation = "happy_bounce"
       /\ \E v \in ViewIds : views[v].pc = "done" /\ views[v].result.animation = "idle"

====
